---- MODULE Spec2Model ----
(***************************************************************************)
(* The model state store of the parametric preview studio                  *)
(* (src/src/context/ModelContext.tsx, first ModelProvider of the file).    *)
(*                                                                         *)
(* The store is a React useReducer: every public operation of the          *)
(* provider is a closure over the `state` of the render that created it.   *)
(* An operation reads that snapshot and dispatches actions; the reducer    *)
(* applies the dispatched actions, in order, to the store's own state.     *)
(* React re-renders after every event handler, so one step of the model    *)
(* is one event: the calls the handler makes all read the state the step   *)
(* starts in (the snapshot), and the state the step ends in is the state   *)
(* of the next render.                                                     *)
(*                                                                         *)
(* Encoding.  An instance id `model-<t>` is the tuple <<t>>, a child id    *)
(* `model-<t>-child-<i>` is <<t, i>>, null is <<>>.  A ModelInstance is a  *)
(* record whose optional fields (isComposite, childrenIds, isSubmodel,     *)
(* parentId, faceMaterials) are absent from its domain when undefined in   *)
(* the source; so is any other field that was assigned undefined.          *)
(* A Vector3/Euler is its triple of components.  Lengths are               *)
(* in centimetres so that the parameter values are integers.  The display  *)
(* name of an instance is not part of the model.                           *)
(*                                                                         *)
(* The scene (src/src/components/ModelViewer.tsx, last ModelViewer of the   *)
(* file).  The `object` of an instance is a reference to a three.js        *)
(* Object3D: `objects` is the heap of these objects, an object reference   *)
(* is the pair <<tag, n>> of the instance id the object was built for and  *)
(* a serial number, and an Object3D is the record of its userData.id, its  *)
(* parent (the scene root, another object or none), its transform, its     *)
(* visibility and the number of times disposeObject was applied to it.     *)
(* `gizmo` is the object the transform controls are attached to.  The      *)
(* viewer is mounted for the whole run: after the handler of an event the  *)
(* component re-renders and runs its effects, which is the synchronization *)
(* pass.  Objects that nothing refers to any more stay in `objects` until  *)
(* the next event and are then forgotten, as the garbage collector does.   *)
(*                                                                         *)
(* The viewer's own state.  `isTransformActive` is the value last given to *)
(* setIsTransformActive by the mouseDown and mouseUp listeners of the      *)
(* transform controls; `handlerActive` is the isTransformActive that the   *)
(* handlePointerDown of the last render closed over.  The two differ       *)
(* between a listener's call and the re-render it asks for.                *)
(***************************************************************************)
EXTENDS Integers, Sequences, FiniteSets, TLC

\* models, selectedModelId, selectedFaceId: the AppState of the reducer;
\* now: the value Date.now() returns; edits: the parameter and material
\* events so far; moves: the transform and visibility events so far;
\* objects: the three.js objects; gizmo: transformControls.object;
\* isTransformActive, handlerActive: the drag flag of the viewer, as set and
\* as seen by handlePointerDown
VARIABLES models, selectedModelId, selectedFaceId, now, edits, moves, objects,
          gizmo, isTransformActive, handlerActive

vars ==
  <<models, selectedModelId, selectedFaceId, now, edits, moves, objects, gizmo,
    isTransformActive, handlerActive>>

(* ------------------------------ bounds -------------------------------- *)

MaxModels == 3      \* instances in the store
MaxClock == 2       \* values Date.now() takes
MaxSub == 2         \* submodel specs of one addCompositeModel call
MaxEdits == 1       \* parameter-panel events
MaxMoves == 1       \* transform and visibility events
MaxPaints == 2      \* face material events

(* ------------------------- values and helpers ------------------------- *)

Null == <<>>

NoFace == "null"

Has(m, f) == f \in DOMAIN m

\* { ...a, ...b }
Spread(a, b) == b @@ a

\* the record m without its field f
Except(m, f) == [g \in DOMAIN m \ {f} |-> m[g]]

\* { ...m, f: from.f } and m.f = from.f: a field that `from` does not have
\* reads as undefined, and m is left with f undefined
Assign(m, f, from) ==
  IF Has(from, f) THEN Spread(m, [g \in {f} |-> from[f]]) ELSE Except(m, f)

\* array.find(m => m.id === id): the index of the first match, 0 when none
FindIndex(ms, id) ==
  IF \E i \in 1..Len(ms) : ms[i].id = id
  THEN CHOOSE i \in 1..Len(ms) :
         ms[i].id = id /\ \A j \in 1..(i - 1) : ms[j].id # id
  ELSE 0

Includes(s, x) == \E i \in 1..Len(s) : s[i] = x

\* array.filter(keep)
Filter(s, keep(_)) == SelectSeq(s, keep)

MapSeq(s, f(_)) == [i \in 1..Len(s) |-> f(s[i])]

State(ms, sel, face) ==
  [models |-> ms, selectedModelId |-> sel, selectedFaceId |-> face]

(* ------------------------ prototype registry -------------------------- *)

PrototypeIds == {"desk-basic", "bookshelf"}

\* prototype.parameters.reduce(...): the schema defaults, two parameters of
\* each prototype
Defaults(prototypeId) ==
  IF prototypeId = "desk-basic"
  THEN [width |-> 120, height |-> 75]
  ELSE [width |-> 80, height |-> 180]

getPrototypeById(id) == id \in PrototypeIds

ZeroVec == <<0, 0, 0>>

UnitVec == <<1, 1, 1>>

(* ------------------------------ reducer ------------------------------- *)

ADD_MODEL(state, payload) ==
  [state EXCEPT !.models = Append(state.models, payload),
                !.selectedModelId = payload.id]

ADD_COMPOSITE_MODEL(state, parent, children) ==
  LET updatedParent ==
        Spread(parent, [isComposite |-> TRUE,
                        childrenIds |-> MapSeq(children, LAMBDA c : c.id)])
      updatedChildren ==
        MapSeq(children,
               LAMBDA c : Spread(c, [parentId |-> parent.id,
                                     isSubmodel |-> TRUE]))
  IN [state EXCEPT !.models = state.models \o <<updatedParent>> \o updatedChildren,
                   !.selectedModelId = parent.id]

REMOVE_MODEL(state, payload) ==
  LET ix == FindIndex(state.models, payload) IN
  IF ix = 0 THEN state
  ELSE
    LET modelToRemove == state.models[ix]
        base == IF Has(modelToRemove, "isComposite") /\ modelToRemove.isComposite
                   /\ Has(modelToRemove, "childrenIds")
                THEN <<payload>> \o modelToRemove.childrenIds
                ELSE <<payload>>
        px == IF Has(modelToRemove, "parentId")
              THEN FindIndex(state.models, modelToRemove.parentId)
              ELSE 0
        hasParent == px # 0 /\ Has(state.models[px], "childrenIds")
        parent == state.models[px]
        updatedChildrenIds ==
          Filter(parent.childrenIds, LAMBDA id : id # payload)
        modelsToRemove ==
          IF hasParent /\ updatedChildrenIds = <<>>
          THEN Append(base, parent.id)
          ELSE base
    IN IF hasParent /\ updatedChildrenIds # <<>>
       THEN LET updatedModels ==
                  MapSeq(state.models,
                         LAMBDA model :
                           IF model.id = parent.id
                           THEN Spread(model, [childrenIds |-> updatedChildrenIds])
                           ELSE model)
            IN [state EXCEPT
                  !.models = Filter(updatedModels, LAMBDA model : model.id # payload),
                  !.selectedModelId =
                     IF state.selectedModelId = payload THEN Null
                     ELSE state.selectedModelId]
       ELSE [state EXCEPT
               !.models = Filter(state.models,
                                 LAMBDA model : ~Includes(modelsToRemove, model.id)),
               !.selectedModelId =
                  IF state.selectedModelId # Null
                     /\ Includes(modelsToRemove, state.selectedModelId)
                  THEN Null
                  ELSE state.selectedModelId]

UPDATE_MODEL(state, id, updates) ==
  [state EXCEPT !.models =
     MapSeq(state.models,
            LAMBDA model : IF model.id = id THEN Spread(model, updates) ELSE model)]

\* payload: { id, visible }, visible undefined when the caller gave none
SET_MODEL_VISIBILITY(state, payload) ==
  LET ix == FindIndex(state.models, payload.id) IN
  IF ix = 0 THEN state
  ELSE
    LET modelToUpdate == state.models[ix]
        modelsToUpdate ==
          IF Has(modelToUpdate, "isComposite") /\ modelToUpdate.isComposite
             /\ Has(modelToUpdate, "childrenIds")
          THEN <<payload.id>> \o modelToUpdate.childrenIds
          ELSE <<payload.id>>
    IN [state EXCEPT !.models =
          MapSeq(state.models,
                 LAMBDA model :
                   IF Includes(modelsToUpdate, model.id)
                   THEN Assign(model, "visible", payload)
                   ELSE model)]

\* SELECT_MODEL that forgets to clear the face selection
SELECT_MODEL_KeepFace(state, payload) ==
  [state EXCEPT
     !.selectedModelId = payload,
     !.models = MapSeq(state.models,
                       LAMBDA model :
                         Spread(model, [selected |-> (model.id = payload)]))]

SELECT_MODEL(state, payload) ==
  [state EXCEPT
     !.selectedModelId = payload,
     !.selectedFaceId = NoFace,
     !.models = MapSeq(state.models,
                       LAMBDA model :
                         Spread(model, [selected |-> (model.id = payload)]))]

SELECT_FACE(state, payload) ==
  [state EXCEPT !.selectedFaceId = payload]

\* the operands of || the other way round: the field is never written
OrElse_Swapped(payload, f, dflt) == dflt

\* payload.position || model.position
OrElse(payload, f, dflt) == IF Has(payload, f) THEN payload[f] ELSE dflt

\* UPDATE_MODEL_TRANSFORM that copies the parent's transform into the children
UPDATE_MODEL_TRANSFORM_CopyToChildren(state, id, payload) ==
  LET ix == FindIndex(state.models, id) IN
  IF ix = 0 THEN state
  ELSE
    LET modelToUpdate == state.models[ix]
        moved(model) ==
          Spread(model,
                 [position |-> OrElse(payload, "position", model.position),
                  rotation |-> OrElse(payload, "rotation", model.rotation),
                  scale |-> OrElse(payload, "scale", model.scale)])
    IN [state EXCEPT !.models =
          MapSeq(state.models,
                 LAMBDA model :
                   IF model.id = id THEN moved(model)
                   ELSE IF Has(modelToUpdate, "isComposite")
                           /\ modelToUpdate.isComposite
                           /\ Has(modelToUpdate, "childrenIds")
                           /\ Includes(modelToUpdate.childrenIds, model.id)
                        THEN moved(model)
                   ELSE IF Has(modelToUpdate, "isSubmodel")
                           /\ modelToUpdate.isSubmodel
                           /\ model.id = modelToUpdate.parentId
                        THEN moved(model)
                   ELSE model)]

UPDATE_MODEL_TRANSFORM(state, id, payload) ==
  LET ix == FindIndex(state.models, id) IN
  IF ix = 0 THEN state
  ELSE
    LET modelToUpdate == state.models[ix]
        moved(model) ==
          Spread(model,
                 [position |-> OrElse(payload, "position", model.position),
                  rotation |-> OrElse(payload, "rotation", model.rotation),
                  scale |-> OrElse(payload, "scale", model.scale)])
    IN [state EXCEPT !.models =
          MapSeq(state.models,
                 LAMBDA model :
                   IF model.id = id THEN moved(model)
                   ELSE IF Has(modelToUpdate, "isComposite")
                           /\ modelToUpdate.isComposite
                           /\ Has(modelToUpdate, "childrenIds")
                           /\ Includes(modelToUpdate.childrenIds, model.id)
                        THEN model
                   ELSE IF Has(modelToUpdate, "isSubmodel")
                           /\ modelToUpdate.isSubmodel
                           /\ model.id = modelToUpdate.parentId
                        THEN moved(model)
                   ELSE model)]

UPDATE_MODEL_PARAMETERS(state, id, parameters) ==
  [state EXCEPT !.models =
     MapSeq(state.models,
            LAMBDA model :
              IF model.id = id
              THEN Spread(model,
                          [parameters |-> Spread(model.parameters, parameters)])
              ELSE model)]

\* SET_FACE_MATERIAL that forgets the overrides the instance already has
SET_FACE_MATERIAL_Replace(state, modelId, faceIndex, materialId) ==
  [state EXCEPT !.models =
     MapSeq(state.models,
            LAMBDA model :
              IF model.id = modelId
              THEN Spread(model,
                     [faceMaterials |-> [i \in {faceIndex} |-> materialId]])
              ELSE model)]

SET_FACE_MATERIAL(state, modelId, faceIndex, materialId) ==
  [state EXCEPT !.models =
     MapSeq(state.models,
            LAMBDA model :
              IF model.id = modelId
              THEN Spread(model,
                     [faceMaterials |->
                        Spread(IF Has(model, "faceMaterials")
                               THEN model.faceMaterials
                               ELSE <<>>,
                               [i \in {faceIndex} |-> materialId])])
              ELSE model)]

CLEAR_SELECTION(state) ==
  [state EXCEPT
     !.selectedModelId = Null,
     !.selectedFaceId = NoFace,
     !.models = MapSeq(state.models,
                       LAMBDA model : Spread(model, [selected |-> FALSE]))]

(* ------------------------- provider operations ------------------------ *)
(* `state` is the store's state when the call is made, `snap` the state   *)
(* of the render whose closure the caller holds, `t` the value of         *)
(* Date.now().  Each operation is two operators: the actions it           *)
(* dispatches, applied to the store, and, under the same name with the    *)
(* suffix Scene, what it does to the three.js objects directly.  `heap`   *)
(* is the objects when the call is made, `object` the reference of the    *)
(* object prototype.createModel returns.                                  *)

NewInstance(id, prototypeId, object) ==
  [id |-> id, prototypeId |-> prototypeId, visible |-> TRUE, selected |-> FALSE,
   position |-> ZeroVec, rotation |-> ZeroVec, scale |-> UnitVec,
   parameters |-> Defaults(prototypeId), object |-> object]

addModel(state, snap, prototypeId, t, object) ==
  ADD_MODEL(state, NewInstance(<<t>>, prototypeId, object))

\* submodels: the sequence of the specs' prototype ids; childObjects: the
\* references of their objects
addCompositeModel(state, snap, prototypeId, submodels, t, parentObject, childObjects) ==
  LET parentModel ==
        Spread(NewInstance(<<t>>, prototypeId, parentObject),
               [isComposite |-> TRUE, childrenIds |-> <<>>])
      childModels ==
        [index \in 1..Len(submodels) |->
           Spread(NewInstance(<<t, index - 1>>, submodels[index], childObjects[index]),
                  [isSubmodel |-> TRUE, parentId |-> <<t>>])]
  IN ADD_COMPOSITE_MODEL(state, parentModel, childModels)

removeModel(state, snap, id) == REMOVE_MODEL(state, id)

selectModel(state, id) == SELECT_MODEL(state, id)

selectFace(state, id) == SELECT_FACE(state, id)

deselectModel(state) == CLEAR_SELECTION(state)

updateModel(state, id, updates) == UPDATE_MODEL(state, id, updates)

updateModelParameters(state, snap, id, parameters, newObject) ==
  LET ix == FindIndex(snap.models, id) IN
  IF ix = 0 THEN state
  ELSE
    LET model == snap.models[ix]
        merged == UPDATE_MODEL_PARAMETERS(state, id, parameters)
        updatedParams == Spread(model.parameters, parameters)
    IN IF getPrototypeById(model.prototypeId)
       THEN updateModel(merged, id,
                        [parameters |-> updatedParams, object |-> newObject])
       ELSE merged

updateModelTransform(state, snap, id, payload) ==
  UPDATE_MODEL_TRANSFORM(state, id, payload)

\* payload: the arguments (id, visible) of the call
setModelVisibility(state, snap, payload) ==
  SET_MODEL_VISIBILITY(state, payload)

setFaceMaterial(state, snap, modelId, faceIndex, materialId) ==
  SET_FACE_MATERIAL(state, modelId, faceIndex, materialId)

(* ------------------------------ the scene ----------------------------- *)

NoObject == <<>>

\* the THREE.Scene, as the parent of the objects added to it
SceneRoot == <<"scene">>

\* prototype.createModel(parameters) and object.userData.id = id
createModel(id) ==
  [id |-> id, parent |-> NoObject, position |-> ZeroVec, rotation |-> ZeroVec,
   scale |-> UnitVec, visible |-> TRUE, disposed |-> 0]

\* the reference of a new object built for the instance id
NewObject(heap, id) ==
  <<id, CHOOSE n \in 0..Cardinality(DOMAIN heap) :
          /\ <<id, n>> \notin DOMAIN heap
          /\ \A m \in 0..(n - 1) : <<id, m>> \in DOMAIN heap>>

Allocate(heap, object, value) == (object :> value) @@ heap

\* parent.add(object): the object leaves the parent it had
Add(heap, parent, object) == [heap EXCEPT ![object].parent = parent]

\* object.parent.remove(object)
Remove(heap, object) == [heap EXCEPT ![object].parent = NoObject]

RECURSIVE InTree(_, _, _, _)
\* root is the object or one of its ancestors, at most n levels up
InTree(heap, root, object, n) ==
  IF object = root THEN TRUE
  ELSE IF object = NoObject \/ object = SceneRoot \/ n = 0 THEN FALSE
  ELSE InTree(heap, root, heap[object].parent, n - 1)

\* scene.traverse reaches the object
InScene(heap, object) ==
  InTree(heap, SceneRoot, object, Cardinality(DOMAIN heap))

\* the object of the scene tagged with the id, if any
findObjectById(heap, id) ==
  LET found == {o \in DOMAIN heap : InScene(heap, o) /\ heap[o].id = id}
  IN IF found = {} THEN NoObject ELSE CHOOSE o \in found : TRUE

\* the geometry and the materials of the object are released
disposeObject(heap, object) == [heap EXCEPT ![object].disposed = @ + 1]

addModelScene(heap, t, object) == Allocate(heap, object, createModel(<<t>>))

addCompositeModelScene(heap, submodels, t, parentObject, childObjects) ==
  LET withParent == Allocate(heap, parentObject, createModel(<<t>>))
      children ==
        [o \in {childObjects[index] : index \in 1..Len(submodels)} |->
           LET index == CHOOSE k \in 1..Len(submodels) : childObjects[k] = o
           IN [createModel(<<t, index - 1>>) EXCEPT !.parent = parentObject]]
  IN children @@ withParent

removeModelScene(heap, snap, id) ==
  LET ix == FindIndex(snap.models, id) IN
  IF ix = 0 THEN heap
  ELSE
    LET object == snap.models[ix].object
        detached == IF heap[object].parent # NoObject
                    THEN Remove(heap, object)
                    ELSE heap
    IN disposeObject(detached, object)

updateModelParametersScene(heap, snap, id, newObject) ==
  LET ix == FindIndex(snap.models, id) IN
  IF ix = 0 \/ ~getPrototypeById(snap.models[ix].prototypeId) THEN heap
  ELSE
    LET model == snap.models[ix]
        built == Allocate(heap, newObject,
                          [createModel(id) EXCEPT !.position = model.position,
                                                  !.rotation = model.rotation,
                                                  !.scale = model.scale])
    IN IF heap[model.object].parent # NoObject
       THEN LET parent == heap[model.object].parent
            IN disposeObject(Add(Remove(built, model.object), parent, newObject),
                             model.object)
       ELSE built

updateModelTransformScene(heap, snap, id, payload) ==
  LET ix == FindIndex(snap.models, id) IN
  IF ix = 0 THEN heap
  ELSE [heap EXCEPT ![snap.models[ix].object] = Spread(@, payload)]

setModelVisibilityScene(heap, snap, payload) ==
  LET ix == FindIndex(snap.models, payload.id) IN
  IF ix = 0 THEN heap
  ELSE [heap EXCEPT ![snap.models[ix].object] = Assign(@, "visible", payload)]

(* ----------------------------- the effects ---------------------------- *)

\* a push that adds the position of the instance to that of the object
\* instead of copying it
Push_Add(heap, model) ==
  [heap EXCEPT ![model.object] =
     Assign(Spread(@, [position |-> [k \in 1..3 |->
                                       @.position[k] + model.position[k]],
                       rotation |-> model.rotation, scale |-> model.scale]),
            "visible", model)]

\* model.object.position.copy(model.position), ..., model.object.visible =
\* model.visible
Push(heap, model) ==
  [heap EXCEPT ![model.object] =
     Assign(Spread(@, [position |-> model.position, rotation |-> model.rotation,
                       scale |-> model.scale]),
            "visible", model)]

RECURSIVE AddOrUpdate(_, _, _)
\* models.forEach of the models effect, from the k-th model on
AddOrUpdate(heap, ms, k) ==
  IF k > Len(ms) THEN heap
  ELSE
    LET model == ms[k]
        existingObject == findObjectById(heap, model.id)
        added == IF existingObject = NoObject
                 THEN Add(heap, SceneRoot, model.object)
                 ELSE heap
    IN AddOrUpdate(Push(added, model), ms, k + 1)

\* 'Update scene when models change'
ModelsEffect(heap, ms) ==
  LET orphans == {o \in DOMAIN heap :
                    /\ InScene(heap, o)
                    /\ \A i \in 1..Len(ms) : ms[i].id # heap[o].id}
      removed == [o \in DOMAIN heap |->
                    IF o \in orphans /\ heap[o].parent # NoObject
                    THEN [heap[o] EXCEPT !.parent = NoObject]
                    ELSE heap[o]]
  IN AddOrUpdate(removed, ms, 1)

\* 'Handle selection changes': the object the gizmo is attached to afterwards
SelectionEffect(heap, attached, selected) ==
  IF selected # Null
  THEN LET selectedObject == findObjectById(heap, selected)
       IN IF selectedObject # NoObject THEN selectedObject ELSE attached
  ELSE NoObject

RECURSIVE PushAll(_, _, _)
\* 'Ensure model objects match their data state', from the k-th model on
PushAll(heap, ms, k) ==
  IF k > Len(ms) THEN heap ELSE PushAll(Push(heap, ms[k]), ms, k + 1)

ProviderEffect(heap, ms) == PushAll(heap, ms, 1)

(* -------------------------- garbage collection ------------------------ *)

RECURSIVE Top(_, _, _)
\* the topmost ancestor of the object
Top(heap, object, n) ==
  IF heap[object].parent = NoObject \/ heap[object].parent = SceneRoot \/ n = 0
  THEN object
  ELSE Top(heap, heap[object].parent, n - 1)

\* the objects the program can still reach: those of the scene and the trees
\* of those an instance or the gizmo refers to
Sweep(heap, ms, attached) ==
  LET n == Cardinality(DOMAIN heap)
      referenced == {ms[i].object : i \in 1..Len(ms)}
                      \cup (IF attached = NoObject THEN {} ELSE {attached})
      roots == {Top(heap, r, n) : r \in referenced}
      keep == {o \in DOMAIN heap : InScene(heap, o) \/ Top(heap, o, n) \in roots}
  IN [o \in keep |-> heap[o]]

(* ------------------------------- inputs ------------------------------- *)

\* an id no instance ever has: the clock starts at 1
AbsentId == <<0>>

PresentIds == {models[i].id : i \in 1..Len(models)}

IdArgs == PresentIds \cup {AbsentId}

FaceIds == {"2"}

\* the new value a parameter panel sets
ParamValue == 150

ParamKeys == {"width", "height"}

ParamArgs == {[k \in {p} |-> ParamValue] : p \in ParamKeys}

\* the submodel specs of one addCompositeModel call, over the prototypes ps
SubmodelSpecs(ps) == UNION {[1..n -> ps] : n \in 0..MaxSub}

SubmodelArgs == SubmodelSpecs(PrototypeIds)

\* the values a transform edit writes
TransformValue ==
  [position |-> <<1, 0, 2>>, rotation |-> <<0, 1, 0>>, scale |-> <<2, 2, 2>>]

\* { id, position, rotation, scale }: one field, two fields or all three
\* provided, the others undefined
TransformArgs ==
  {[f \in fs |-> TransformValue[f]] :
     fs \in {{"position"}, {"rotation", "scale"}, {"position", "rotation", "scale"}}}

FaceIndices == {0, 3}

\* two materials of the library
MaterialIds == {"oak", "chrome"}

getMaterialById(id) == id \in MaterialIds

\* an id the library does not have
AbsentMaterial == "plastic"

(* ------------------------------- events ------------------------------- *)
(* One step is one event handler run to completion followed by the        *)
(* re-render: the handler's calls read the state the step starts in.      *)

Cur == State(models, selectedModelId, selectedFaceId)

Commit(s) ==
  /\ models' = s.models
  /\ selectedModelId' = s.selectedModelId
  /\ selectedFaceId' = s.selectedFaceId

\* the objects the handler of the event finds
Heap == Sweep(objects, models, gizmo)

\* the re-render with the state `next` and its effects, in the order React
\* runs them: the models effect and the selection effect of the viewer, the
\* latter only when selectedModelId or selectedFaceId changed, then the
\* effect of the provider.  The render creates handlePointerDown anew, with
\* the isTransformActive of this render.
Render(next, heap) ==
  LET synced == ModelsEffect(heap, next.models)
  IN /\ objects' = ProviderEffect(synced, next.models)
     /\ gizmo' = IF \/ next.selectedModelId # selectedModelId
                    \/ next.selectedFaceId # selectedFaceId
                 THEN SelectionEffect(synced, gizmo, next.selectedModelId)
                 ELSE gizmo
     /\ isTransformActive' = isTransformActive
     /\ handlerActive' = isTransformActive

Finish(next, heap) == Commit(next) /\ Render(next, heap)

AddModel(prototypeId) ==
  /\ Len(models) + 1 <= MaxModels
  /\ LET object == NewObject(Heap, <<now>>)
     IN Finish(addModel(Cur, Cur, prototypeId, now, object),
               addModelScene(Heap, now, object))
  /\ UNCHANGED <<now, edits, moves>>

AddCompositeModel(prototypeId, submodels) ==
  /\ Len(models) + 1 + Len(submodels) <= MaxModels
  /\ LET parentObject == NewObject(Heap, <<now>>)
         childObjects == [index \in 1..Len(submodels) |->
                            NewObject(Heap, <<now, index - 1>>)]
     IN Finish(addCompositeModel(Cur, Cur, prototypeId, submodels, now,
                                 parentObject, childObjects),
               addCompositeModelScene(Heap, submodels, now,
                                      parentObject, childObjects))
  /\ UNCHANGED <<now, edits, moves>>

RemoveModel(id) ==
  /\ Finish(removeModel(Cur, Cur, id), removeModelScene(Heap, Cur, id))
  /\ UNCHANGED <<now, edits, moves>>

SelectModel(id) ==
  /\ Finish(selectModel(Cur, id), Heap)
  /\ UNCHANGED <<now, edits, moves>>

SelectFace(id) ==
  /\ Finish(selectFace(Cur, id), Heap)
  /\ UNCHANGED <<now, edits, moves>>

ClearSelection ==
  /\ Finish(deselectModel(Cur), Heap)
  /\ UNCHANGED <<now, edits, moves>>

UpdateParameters(id, parameters) ==
  /\ edits + 1 <= MaxEdits
  /\ edits' = edits + 1
  /\ LET newObject == NewObject(Heap, id)
     IN Finish(updateModelParameters(Cur, Cur, id, parameters, newObject),
               updateModelParametersScene(Heap, Cur, id, newObject))
  /\ UNCHANGED <<now, moves>>

\* one event handler calling updateModelParameters twice: both calls are
\* closures of the same render
UpdateParametersTwice(id, p1, p2) ==
  /\ edits + 1 <= MaxEdits
  /\ edits' = edits + 1
  /\ LET first == NewObject(Heap, id)
         heap1 == updateModelParametersScene(Heap, Cur, id, first)
         second == NewObject(heap1, id)
     IN Finish(updateModelParameters(
                 updateModelParameters(Cur, Cur, id, p1, first),
                 Cur, id, p2, second),
               updateModelParametersScene(heap1, Cur, id, second))
  /\ UNCHANGED <<now, moves>>

UpdateTransform(id, payload) ==
  /\ moves + 1 <= MaxMoves
  /\ moves' = moves + 1
  /\ Finish(updateModelTransform(Cur, Cur, id, payload),
            updateModelTransformScene(Heap, Cur, id, payload))
  /\ UNCHANGED <<now, edits>>

SetVisibility(id, visible) ==
  /\ moves + 1 <= MaxMoves
  /\ moves' = moves + 1
  /\ LET payload == [id |-> id, visible |-> visible]
     IN Finish(setModelVisibility(Cur, Cur, payload),
               setModelVisibilityScene(Heap, Cur, payload))
  /\ UNCHANGED <<now, edits>>

\* the visibility button of the scene-model tree:
\* onToggleVisibility(model.id) with onToggleVisibility = setModelVisibility
PressVisibility(id) ==
  /\ moves + 1 <= MaxMoves
  /\ moves' = moves + 1
  /\ LET payload == [id |-> id]
     IN Finish(setModelVisibility(Cur, Cur, payload),
               setModelVisibilityScene(Heap, Cur, payload))
  /\ UNCHANGED <<now, edits>>

\* the materials of the meshes are not part of the objects of the model
SetFaceMaterial(modelId, faceIndex, materialId) ==
  /\ edits + 1 <= MaxPaints
  /\ edits' = edits + 1
  /\ Finish(setFaceMaterial(Cur, Cur, modelId, faceIndex, materialId), Heap)
  /\ UNCHANGED <<now, moves>>

\* the clock advances between two events, or does not
Tick ==
  /\ now + 1 <= MaxClock
  /\ now' = now + 1
  /\ UNCHANGED <<models, selectedModelId, selectedFaceId, edits, moves, objects,
                 gizmo, isTransformActive, handlerActive>>

\* the objects a pointer-down can hit: an object of the scene (one of its
\* meshes), a helper of the scene that belongs to no instance, or nothing
PickTargets ==
  {o \in DOMAIN objects : InScene(objects, o)} \cup {SceneRoot, NoObject}

\* pickResult.face: a face index, or none
NoIndex == -1

PickFaces == {NoIndex, 2}

RECURSIVE ModelIdOf(_, _, _)
\* 'Traverse up the object hierarchy to find the root model object': the
\* userData.id of the first object that has one, from currentObject upwards
ModelIdOf(heap, currentObject, n) ==
  IF currentObject = NoObject \/ currentObject = SceneRoot \/ n = 0 THEN Null
  ELSE IF heap[currentObject].id # Null THEN heap[currentObject].id
  ELSE ModelIdOf(heap, heap[currentObject].parent, n - 1)

\* handlePointerDown that selects the top-level model of the object hit
handlePointerDown_Top(state, heap, hit, face) ==
  IF hit # NoObject /\ hit # SceneRoot
  THEN selectModel(state, heap[Top(heap, hit, Cardinality(DOMAIN heap))].id)
  ELSE deselectModel(state)

handlePointerDown(state, heap, hit, face) ==
  IF hit # NoObject
  THEN LET modelId == ModelIdOf(heap, hit, Cardinality(DOMAIN heap))
       IN IF modelId # Null THEN selectModel(state, modelId)
          ELSE deselectModel(state)
  ELSE deselectModel(state)

\* a pointer-down on the viewer: 'Skip if transform controls are active'
Pick(hit, face) ==
  /\ IF handlerActive
     THEN UNCHANGED <<models, selectedModelId, selectedFaceId, objects, gizmo,
                      isTransformActive, handlerActive>>
     ELSE Finish(handlePointerDown(Cur, Heap, hit, face), Heap)
  /\ UNCHANGED <<now, edits, moves>>

\* the transform controls' mouseDown: setIsTransformActive(true), the
\* re-render is still to come
GizmoMouseDown ==
  /\ gizmo # NoObject
  /\ ~isTransformActive
  /\ isTransformActive' = TRUE
  /\ UNCHANGED <<models, selectedModelId, selectedFaceId, now, edits, moves,
                 objects, gizmo, handlerActive>>

\* the transform controls' mouseUp: setIsTransformActive(false)
GizmoMouseUp ==
  /\ isTransformActive
  /\ isTransformActive' = FALSE
  /\ UNCHANGED <<models, selectedModelId, selectedFaceId, now, edits, moves,
                 objects, gizmo, handlerActive>>

\* the re-render asked for by setIsTransformActive: no effect has a changed
\* dependency
Rerender ==
  /\ handlerActive # isTransformActive
  /\ handlerActive' = isTransformActive
  /\ UNCHANGED <<models, selectedModelId, selectedFaceId, now, edits, moves,
                 objects, gizmo, isTransformActive>>

Init ==
  /\ models = <<>>
  /\ selectedModelId = Null
  /\ selectedFaceId = NoFace
  /\ now = 1
  /\ edits = 0
  /\ moves = 0
  /\ objects = <<>>
  /\ gizmo = NoObject
  /\ isTransformActive = FALSE
  /\ handlerActive = FALSE

\* the store's structure and selection operations
Next ==
  \/ \E prototypeId \in PrototypeIds : AddModel(prototypeId)
  \/ \E prototypeId \in PrototypeIds, submodels \in SubmodelArgs :
       AddCompositeModel(prototypeId, submodels)
  \/ \E id \in IdArgs : RemoveModel(id)
  \/ \E id \in IdArgs \cup {Null} : SelectModel(id)
  \/ \E id \in FaceIds \cup {NoFace} : SelectFace(id)
  \/ ClearSelection
  \/ Tick

Spec == Init /\ [][Next]_vars

\* the structure operations and the parameter panel
NextParams ==
  \/ \E prototypeId \in PrototypeIds : AddModel(prototypeId)
  \/ \E prototypeId \in PrototypeIds, submodels \in SubmodelArgs :
       AddCompositeModel(prototypeId, submodels)
  \/ \E id \in PresentIds : RemoveModel(id)
  \/ Tick
  \/ \E id \in IdArgs, parameters \in ParamArgs : UpdateParameters(id, parameters)
  \/ \E id \in IdArgs, p1 \in ParamArgs, p2 \in ParamArgs :
       p1 # p2 /\ UpdateParametersTwice(id, p1, p2)

SpecParams == Init /\ [][NextParams]_vars

OnePrototype == {"desk-basic"}

\* the additions over one prototype
NextBuild ==
  \/ \E prototypeId \in OnePrototype : AddModel(prototypeId)
  \/ \E prototypeId \in OnePrototype, submodels \in SubmodelSpecs(OnePrototype) :
       AddCompositeModel(prototypeId, submodels)
  \/ Tick

\* the additions and the removals
NextShape ==
  \/ NextBuild
  \/ \E id \in PresentIds : RemoveModel(id)

\* the additions and the transform edits
NextTransform ==
  \/ NextBuild
  \/ \E id \in PresentIds, payload \in TransformArgs : UpdateTransform(id, payload)

SpecTransform == Init /\ [][NextTransform]_vars

\* the additions, the removals and the visibility toggles
NextVisibility ==
  \/ NextShape
  \/ \E id \in PresentIds, visible \in BOOLEAN : SetVisibility(id, visible)

SpecVisibility == Init /\ [][NextVisibility]_vars

\* the submodel lists of a composite of one child
OneChild == {<<prototypeId>> : prototypeId \in OnePrototype}

\* the face materials of plain instances and of composites of one child, with
\* a face selected or not
NextMaterial ==
  \/ \E prototypeId \in OnePrototype : AddModel(prototypeId)
  \/ \E prototypeId \in OnePrototype, submodels \in OneChild :
       AddCompositeModel(prototypeId, submodels)
  \/ Tick
  \/ \E id \in FaceIds \cup {NoFace} : SelectFace(id)
  \/ \E modelId \in PresentIds, faceIndex \in FaceIndices, materialId \in MaterialIds :
       SetFaceMaterial(modelId, faceIndex, materialId)

SpecMaterial == Init /\ [][NextMaterial]_vars

\* the structure and selection operations over one prototype
NextSelect ==
  \/ NextShape
  \/ \E id \in PresentIds \cup {Null} : SelectModel(id)
  \/ \E id \in FaceIds \cup {NoFace} : SelectFace(id)

SpecSelect == Init /\ [][NextSelect]_vars

\* every operation of the store that takes an id, given an id that is not in
\* models, and setFaceMaterial given a material that is not in the library
NextStore ==
  \/ NextBuild
  \/ \E id \in IdArgs : RemoveModel(id)
  \/ \E id \in IdArgs : SelectModel(id)
  \/ \E parameters \in ParamArgs : UpdateParameters(AbsentId, parameters)
  \/ \E payload \in TransformArgs : UpdateTransform(AbsentId, payload)
  \/ \E visible \in BOOLEAN : SetVisibility(AbsentId, visible)
  \/ \E faceIndex \in FaceIndices, materialId \in MaterialIds :
       SetFaceMaterial(AbsentId, faceIndex, materialId)
  \/ \E modelId \in PresentIds, faceIndex \in FaceIndices :
       SetFaceMaterial(modelId, faceIndex, AbsentMaterial)

SpecStore == Init /\ [][NextStore]_vars

\* the instances added, moved and regenerated by the parameter panel
NextRegenerate ==
  \/ NextBuild
  \/ \E id \in PresentIds, payload \in TransformArgs : UpdateTransform(id, payload)
  \/ \E id \in PresentIds, parameters \in ParamArgs : UpdateParameters(id, parameters)

SpecRegenerate == Init /\ [][NextRegenerate]_vars

\* ... selected, regenerated and removed
NextGizmo ==
  \/ NextSelect
  \/ \E id \in PresentIds, parameters \in ParamArgs : UpdateParameters(id, parameters)

SpecGizmo == Init /\ [][NextGizmo]_vars

\* the store operations that reach the objects themselves, on the instances
\* present
NextScene ==
  \/ NextShape
  \/ \E id \in PresentIds, parameters \in ParamArgs : UpdateParameters(id, parameters)
  \/ \E id \in PresentIds, payload \in TransformArgs : UpdateTransform(id, payload)
  \/ \E id \in PresentIds, visible \in BOOLEAN : SetVisibility(id, visible)

SpecScene == Init /\ [][NextScene]_vars

\* the additions, the face selection and the pointer picks
NextPick ==
  \/ NextBuild
  \/ \E id \in FaceIds : SelectFace(id)
  \/ \E hit \in PickTargets, face \in PickFaces : Pick(hit, face)

SpecPick == Init /\ [][NextPick]_vars

\* ... and the drags of the gizmo, the re-render a drag asks for coming
\* before or after the next pointer-down
NextDrag ==
  \/ NextPick
  \/ GizmoMouseDown
  \/ GizmoMouseUp
  \/ Rerender

SpecDrag == Init /\ [][NextDrag]_vars

\* a transform edit of the position alone
MoveArgs == {[position |-> TransformValue.position]}

\* plain instances and composites of one child, moved and regenerated: the
\* operations after which the synchronization pass has objects to put into
\* the scene, to leave out of it and to update
NextPass ==
  \/ \E prototypeId \in OnePrototype : AddModel(prototypeId)
  \/ \E prototypeId \in OnePrototype, submodels \in OneChild :
       AddCompositeModel(prototypeId, submodels)
  \/ Tick
  \/ \E id \in PresentIds, payload \in MoveArgs : UpdateTransform(id, payload)
  \/ \E id \in PresentIds, parameters \in ParamArgs : UpdateParameters(id, parameters)

SpecPass == Init /\ [][NextPass]_vars

\* the additions, the removals, the pointer picks and selectModel with any
\* id, in models or not
NextReach ==
  \/ NextPick
  \/ \E id \in PresentIds : RemoveModel(id)
  \/ \E id \in IdArgs \cup {Null} : SelectModel(id)

SpecReach == Init /\ [][NextReach]_vars

\* the additions and the visibility buttons of the scene-model tree
NextToggle ==
  \/ NextBuild
  \/ \E id \in PresentIds : PressVisibility(id)

SpecToggle == Init /\ [][NextToggle]_vars

(* ------------------------------- claims ------------------------------- *)

Indices == 1..Len(models)

Selected == {i \in Indices : models[i].selected}

\* C1: at most one instance has selected = true, and an instance has
\* selected = true exactly when its id equals selectedModelId.
C1_SingleSelection ==
  /\ Cardinality(Selected) <= 1
  /\ \A i \in Indices : models[i].selected <=> (models[i].id = selectedModelId)

IsComposite(m) == Has(m, "isComposite") /\ m.isComposite

IsSubmodel(m) == Has(m, "isSubmodel") /\ m.isSubmodel

\* C2: every id in a composite's childrenIds is the id of a present instance
\* whose parentId is the composite's id, and every submodel's parentId is the
\* id of a present composite whose childrenIds contains the submodel.
C2_LinksConsistent ==
  /\ \A i \in Indices :
       IsComposite(models[i]) =>
         \A k \in 1..Len(models[i].childrenIds) :
           \E j \in Indices :
             /\ models[j].id = models[i].childrenIds[k]
             /\ Has(models[j], "parentId")
             /\ models[j].parentId = models[i].id
  /\ \A j \in Indices :
       IsSubmodel(models[j]) =>
         \E i \in Indices :
           /\ models[i].id = models[j].parentId
           /\ IsComposite(models[i])
           /\ Includes(models[i].childrenIds, models[j].id)

\* C3: selectedFaceId is none whenever selectedModelId is none.
C3_NoFaceWithoutModel ==
  selectedModelId = Null => selectedFaceId = NoFace

\* C4: a transition that changes selectedModelId ends with selectedFaceId
\* none.
C4_FaceClearedOnChange ==
  [][selectedModelId' # selectedModelId => selectedFaceId' = NoFace]_vars

Ids(ms) == MapSeq(ms, LAMBDA m : m.id)

Without(s, x) == Filter(s, LAMBDA y : y # x)

\* the instance removeModel(id) finds
Found(id) == models[FindIndex(models, id)]

\* the composites that list c among their children
ParentsOf(c) ==
  {i \in Indices : IsComposite(models[i]) /\ Includes(models[i].childrenIds, c)}

\* C5: removeModel(c) on a submodel c removes c and also its parent when c
\* is the parent's only child; otherwise it removes only c, and the parent
\* stays with its childrenIds less c, in the same order.
C5_RemoveSubmodel ==
  [][\A c \in PresentIds :
       (IsSubmodel(Found(c)) /\ RemoveModel(c)) =>
         \A i \in ParentsOf(c) :
           LET parent == models[i] IN
           IF parent.childrenIds = <<c>>
           THEN /\ ~Includes(Ids(models'), c)
                /\ ~Includes(Ids(models'), parent.id)
           ELSE /\ Ids(models') = Without(Ids(models), c)
                /\ \E j \in 1..Len(models') :
                     /\ models'[j].id = parent.id
                     /\ IsComposite(models'[j])
                     /\ models'[j].childrenIds = Without(parent.childrenIds, c)]_vars

\* C6: removeModel(p) on a composite p removes p and the instances listed
\* in p.childrenIds and nothing else; any removeModel clears selectedModelId
\* exactly when the selected instance is among those removed.
C6_RemoveComposite ==
  [][\A p \in IdArgs :
       RemoveModel(p) =>
         /\ \A i \in Indices :
              (models[i].id = p /\ IsComposite(models[i])) =>
                models' = Filter(models,
                                 LAMBDA m : m.id # p
                                            /\ ~Includes(models[i].childrenIds, m.id))
         /\ selectedModelId' =
              IF Includes(Ids(models), selectedModelId)
                 /\ ~Includes(Ids(models'), selectedModelId)
              THEN Null
              ELSE selectedModelId]_vars

\* C7: updateParameters(id, {p: v}) leaves parameters[p] = v on the instance
\* with that id, keeps its other keys, and keeps the parameters of every other
\* instance.
C7_UpdateParameters ==
  [][\A id \in PresentIds, parameters \in ParamArgs :
       UpdateParameters(id, parameters) =>
         /\ Len(models') = Len(models)
         /\ \A i \in Indices :
              IF models[i].id = id
              THEN /\ \A p \in DOMAIN parameters :
                        /\ p \in DOMAIN models'[i].parameters
                        /\ models'[i].parameters[p] = parameters[p]
                   /\ \A k \in DOMAIN models[i].parameters \ DOMAIN parameters :
                        /\ k \in DOMAIN models'[i].parameters
                        /\ models'[i].parameters[k] = models[i].parameters[k]
              ELSE models'[i].parameters = models[i].parameters]_vars

\* C8: addModel(prototype) appends exactly one instance, of that prototype,
\* with the schema defaults, zero position and rotation, visible and
\* selected, and selectedModelId becomes its id.
C8_AddModel ==
  [][\A prototypeId \in PrototypeIds :
       AddModel(prototypeId) =>
         /\ Len(models') = Len(models) + 1
         /\ SubSeq(models', 1, Len(models)) = models
         /\ LET new == models'[Len(models')] IN
              /\ new.prototypeId = prototypeId
              /\ new.parameters = Defaults(prototypeId)
              /\ new.position = ZeroVec
              /\ new.rotation = ZeroVec
              /\ new.visible = TRUE
              /\ new.selected = TRUE
              /\ selectedModelId' = new.id]_vars

\* every id a composite lists is present, and every submodel's parent is
ParentsAndChildrenTogether ==
  /\ \A i \in Indices :
       IsComposite(models[i]) =>
         \A k \in 1..Len(models[i].childrenIds) :
           models[i].childrenIds[k] \in PresentIds
  /\ \A j \in Indices :
       IsSubmodel(models[j]) => models[j].parentId \in PresentIds

\* C9: addCompositeModel with N specs adds, in one transition, a composite
\* parent and its N submodels, linked both ways in spec order, and selects
\* the parent; no state holds a parent without all its children or a child
\* without its parent.
C9_AddComposite ==
  /\ []ParentsAndChildrenTogether
  /\ [][\A prototypeId \in PrototypeIds, submodels \in SubmodelArgs :
          AddCompositeModel(prototypeId, submodels) =>
            LET n == Len(submodels)
                parent == models'[Len(models) + 1]
                child(k) == models'[Len(models) + 1 + k]
            IN /\ Len(models') = Len(models) + n + 1
               /\ SubSeq(models', 1, Len(models)) = models
               /\ IsComposite(parent)
               /\ parent.prototypeId = prototypeId
               /\ parent.childrenIds = [k \in 1..n |-> child(k).id]
               /\ \A k \in 1..n :
                    /\ IsSubmodel(child(k))
                    /\ child(k).parentId = parent.id
                    /\ child(k).prototypeId = submodels[k]
               /\ selectedModelId' = parent.id]_vars

\* C10: selectModel(x), x a present id or none, sets selectedModelId = x,
\* clears selectedFaceId, sets selected on exactly the instances with id x,
\* and changes no other field of any instance.
C10_SelectModel ==
  [][\A x \in PresentIds \cup {Null} :
       SelectModel(x) =>
         /\ selectedModelId' = x
         /\ selectedFaceId' = NoFace
         /\ Len(models') = Len(models)
         /\ \A i \in Indices :
              models'[i] = [models[i] EXCEPT !.selected = (models[i].id = x)]]_vars

\* selectModel has acted on a composite and its submodel: one of them is
\* flagged, the other is not
C10_Witness ==
  /\ selectedModelId \in PresentIds
  /\ selectedFaceId = NoFace
  /\ \E i \in Indices, j \in Indices :
       /\ models[i].id = selectedModelId
       /\ models[i].selected
       /\ IsSubmodel(models[i])
       /\ IsComposite(models[j])
       /\ ~models[j].selected

RECURSIVE IsSubseq(_, _)
\* s is t with some elements left out
IsSubseq(s, t) ==
  IF s = <<>> THEN TRUE
  ELSE IF t = <<>> THEN FALSE
  ELSE IF Head(s) = Head(t) THEN IsSubseq(Tail(s), Tail(t))
  ELSE IsSubseq(s, Tail(t))

Min(a, b) == IF a <= b THEN a ELSE b

UniqueIds == \A i \in Indices, j \in Indices : i # j => models[i].id # models[j].id

\* C11: no two instances in models have the same id, whatever the timing of
\* the addModel and addCompositeModel calls, and the instances that stay in
\* models keep their ids, in order: a step only drops ids or appends new ones.
C11_UniqueStableIds ==
  /\ []UniqueIds
  /\ [][IsSubseq(SubSeq(Ids(models'), 1, Min(Len(models'), Len(models))),
                 Ids(models))]_vars

TransformFields == {"position", "rotation", "scale"}

\* the fields of TransformFields are those of m, but for the ones payload has
Written(m, n, payload) ==
  \A f \in TransformFields :
    n[f] = IF Has(payload, f) THEN payload[f] ELSE m[f]

SameTransform(m, n) == \A f \in TransformFields : n[f] = m[f]

VisibilityTargets(id) ==
  {i \in Indices :
     \/ models[i].id = id
     \/ \E j \in Indices :
          /\ models[j].id = id
          /\ IsComposite(models[j])
          /\ Includes(models[j].childrenIds, models[i].id)}

\* C14: setVisibility(id, v) on a composite sets visible = v on the composite
\* and on every instance in its childrenIds; on a non-composite it sets
\* visible = v on that instance only; no other instance and no other field
\* changes.
C14_SetVisibility ==
  [][\A id \in PresentIds, v \in BOOLEAN :
       SetVisibility(id, v) =>
         /\ Len(models') = Len(models)
         /\ \A i \in Indices :
              models'[i] = IF i \in VisibilityTargets(id)
                           THEN [models[i] EXCEPT !.visible = v]
                           ELSE models[i]]_vars

FaceMaterialsOf(m) == IF Has(m, "faceMaterials") THEN m.faceMaterials ELSE <<>>

\* C15: setFaceMaterial(M, i, mat) on a present M leaves M.faceMaterials[i] =
\* mat, whether or not i had an entry; the other entries of M.faceMaterials,
\* the other fields of M, the other instances, selectedModelId and
\* selectedFaceId are unchanged.
C15_SetFaceMaterial ==
  [][\A modelId \in PresentIds, faceIndex \in FaceIndices, materialId \in MaterialIds :
       SetFaceMaterial(modelId, faceIndex, materialId) =>
         /\ selectedModelId' = selectedModelId
         /\ selectedFaceId' = selectedFaceId
         /\ Len(models') = Len(models)
         /\ \A i \in Indices :
              IF models[i].id = modelId
              THEN /\ Has(models'[i], "faceMaterials")
                   /\ DOMAIN models'[i].faceMaterials =
                        DOMAIN FaceMaterialsOf(models[i]) \cup {faceIndex}
                   /\ models'[i].faceMaterials[faceIndex] = materialId
                   /\ \A k \in DOMAIN FaceMaterialsOf(models[i]) \ {faceIndex} :
                        models'[i].faceMaterials[k] = models[i].faceMaterials[k]
                   /\ Except(models'[i], "faceMaterials") =
                        Except(models[i], "faceMaterials")
              ELSE models'[i] = models[i]]_vars

\* two faces of one instance painted one after the other, a face being
\* selected, and another instance left unpainted
C15_Witness ==
  /\ selectedFaceId # NoFace
  /\ \E i \in Indices, j \in Indices :
       /\ Has(models[i], "faceMaterials")
       /\ DOMAIN models[i].faceMaterials = FaceIndices
       /\ models[i].faceMaterials[0] # models[i].faceMaterials[3]
       /\ ~Has(models[j], "faceMaterials")

StoreUnchanged == UNCHANGED <<models, selectedModelId, selectedFaceId>>

\* C16: a store operation given a model id that is not in models, or
\* setFaceMaterial given a material id that is not in the library, leaves
\* models, selectedModelId and selectedFaceId as they were.
C16_AbsentIdsNoOp ==
  [][/\ RemoveModel(AbsentId) => StoreUnchanged
     /\ SelectModel(AbsentId) => StoreUnchanged
     /\ \A parameters \in ParamArgs :
          UpdateParameters(AbsentId, parameters) => StoreUnchanged
     /\ \A payload \in TransformArgs :
          UpdateTransform(AbsentId, payload) => StoreUnchanged
     /\ \A v \in BOOLEAN : SetVisibility(AbsentId, v) => StoreUnchanged
     /\ \A faceIndex \in FaceIndices, materialId \in MaterialIds :
          SetFaceMaterial(AbsentId, faceIndex, materialId) => StoreUnchanged
     /\ \A modelId \in PresentIds, faceIndex \in FaceIndices :
          SetFaceMaterial(modelId, faceIndex, AbsentMaterial) => StoreUnchanged]_vars

\* C17: updateParameters(M, p) on an instance M whose object is in the scene,
\* followed by the synchronization pass: M's previous object has been
\* disposed exactly once and is out of the scene, and the scene holds a newly
\* built object tagged with M's id whose position, rotation and scale are
\* those M had before the update.
C17_ObjectReplaced ==
  [][\A id \in PresentIds, parameters \in ParamArgs :
       UpdateParameters(id, parameters) =>
         \A i \in Indices :
           (models[i].id = id /\ InScene(objects, models[i].object)) =>
             LET old == models[i].object IN
             /\ old \in DOMAIN objects'
             /\ objects'[old].disposed = 1
             /\ ~InScene(objects', old)
             /\ \E new \in DOMAIN objects' \ DOMAIN Heap :
                  /\ InScene(objects', new)
                  /\ objects'[new].id = id
                  /\ SameTransform(models[i], objects'[new])]_vars

\* C18: after removeModel and the synchronization pass, every object tagged
\* with an id the step took out of models, that of the removed instance and
\* of every child or parent removed with it, is out of the scene and has been
\* disposed exactly once.
C18_RemovedObjectsDisposed ==
  [][\A id \in PresentIds :
       RemoveModel(id) =>
         \A o \in DOMAIN objects' :
           (/\ objects'[o].id \in PresentIds
            /\ \A i \in 1..Len(models') : models'[i].id # objects'[o].id) =>
             /\ ~InScene(objects', o)
             /\ objects'[o].disposed = 1]_vars

\* C19: after every synchronization pass the object of each submodel is a
\* child of the object of its parent composite, and so not a direct child of
\* the scene root.
C19_ChildrenContained ==
  \A i \in Indices, j \in Indices :
    (/\ IsSubmodel(models[j])
     /\ IsComposite(models[i])
     /\ models[i].id = models[j].parentId) =>
      objects[models[j].object].parent = models[i].object

\* C20: after every synchronization pass the gizmo is detached when no model
\* is selected, and when the scene holds an object tagged with
\* selectedModelId the gizmo is attached to an object of the scene with that
\* tag.
C20_GizmoFollowsSelection ==
  /\ selectedModelId = Null => gizmo = NoObject
  /\ (selectedModelId # Null /\ findObjectById(objects, selectedModelId) # NoObject) =>
       /\ gizmo # NoObject
       /\ InScene(objects, gizmo)
       /\ objects[gizmo].id = selectedModelId

\* C21: when the selection pass runs with selectedModelId set and no object
\* of the scene carries that id, the gizmo is detached after the pass, not
\* left on the object selected before.
C21_MissingObjectDetaches ==
  [][(/\ \/ selectedModelId' # selectedModelId
         \/ selectedFaceId' # selectedFaceId
      /\ selectedModelId' # Null
      /\ findObjectById(objects', selectedModelId') = NoObject) =>
       gizmo' = NoObject]_vars

\* the handler left the scene graph as it found it: the same objects in the
\* scene, every object it found with the parent and the dispose count it had
SceneUntouched(before, after) ==
  /\ \A o \in DOMAIN after :
       InScene(after, o) <=> (o \in DOMAIN before /\ InScene(before, o))
  /\ \A o \in DOMAIN before :
       /\ o \in DOMAIN after
       /\ after[o].parent = before[o].parent
       /\ after[o].disposed = before[o].disposed

\* C22: no store operation changes the scene graph itself (which objects are
\* attached, their containment, which are disposed): between the start of
\* removeModel, updateParameters, updateTransform, setVisibility or
\* addCompositeModel and the synchronization pass that follows it the scene
\* graph is as it was.  setFaceMaterial and the pointer-down handler reach
\* the pass with the objects they found, whatever their arguments.
C22_OnlyThePassMutates ==
  [][/\ \A id \in PresentIds :
          RemoveModel(id) => SceneUntouched(Heap, removeModelScene(Heap, Cur, id))
     /\ \A id \in PresentIds, parameters \in ParamArgs :
          UpdateParameters(id, parameters) =>
            SceneUntouched(Heap, updateModelParametersScene(
                                   Heap, Cur, id, NewObject(Heap, id)))
     /\ \A id \in PresentIds, payload \in TransformArgs :
          UpdateTransform(id, payload) =>
            SceneUntouched(Heap, updateModelTransformScene(Heap, Cur, id, payload))
     /\ \A id \in PresentIds, visible \in BOOLEAN :
          SetVisibility(id, visible) =>
            SceneUntouched(Heap, setModelVisibilityScene(
                                   Heap, Cur, [id |-> id, visible |-> visible]))
     /\ \A prototypeId \in OnePrototype, submodels \in SubmodelSpecs(OnePrototype) :
          AddCompositeModel(prototypeId, submodels) =>
            SceneUntouched(Heap,
              addCompositeModelScene(
                Heap, submodels, now, NewObject(Heap, <<now>>),
                [index \in 1..Len(submodels) |->
                   NewObject(Heap, <<now, index - 1>>)]))]_vars

\* the objects of the scene that carry an instance id, among the object and
\* the objects that contain it
TaggedAbove(object) ==
  {a \in DOMAIN objects :
     /\ InTree(objects, a, object, Cardinality(DOMAIN objects))
     /\ objects[a].id # Null}

C24_PickSelectsFace ==
  [][\A hit \in PickTargets, face \in PickFaces :
       (Pick(hit, face) /\ hit \in DOMAIN objects) =>
         /\ selectedModelId' = objects[hit].id
         /\ selectedFaceId' = IF face = NoIndex THEN NoFace ELSE ToString(face)]_vars

\* C25: a pointer-down delivered after the gizmo's mouseDown and before its
\* mouseUp leaves selectedModelId and selectedFaceId as they were, whether
\* the component has re-rendered since the mouseDown or not.
C25_PicksIgnoredDuringDrag ==
  [][\A hit \in PickTargets, face \in PickFaces :
       (isTransformActive /\ Pick(hit, face)) =>
         UNCHANGED <<selectedModelId, selectedFaceId>>]_vars

C27_SelectionPresent ==
  selectedModelId = Null \/ selectedModelId \in PresentIds

\* C28: updateParameters called twice for one instance from the same render,
\* with {p: v} and then {q: w} for different keys p and q: once the
\* dispatched actions are applied the instance has parameters[p] = v and
\* parameters[q] = w.
C28_NoLostUpdate ==
  [][\A id \in PresentIds, p1 \in ParamArgs, p2 \in ParamArgs :
       (DOMAIN p1 # DOMAIN p2 /\ UpdateParametersTwice(id, p1, p2)) =>
         \A i \in 1..Len(models') :
           models'[i].id = id =>
             /\ \A p \in DOMAIN p1 : models'[i].parameters[p] = p1[p]
             /\ \A q \in DOMAIN p2 : models'[i].parameters[q] = p2[q]]_vars

\* C29: after any additions, parameter updates (several for one instance in
\* one event among them) and removals, and the synchronization pass that
\* follows, the scene holds exactly one object tagged with the id of each
\* instance, and that object is the instance's `object`.
C29_OneObjectPerInstance ==
  \A i \in Indices :
    {o \in DOMAIN objects : InScene(objects, o) /\ objects[o].id = models[i].id}
      = {models[i].object}

\* C30: pressing the visibility control of an instance in the scene-model
\* tree leaves the instance's visible field a boolean, the opposite of the
\* one it had: a visible instance becomes hidden and a hidden one visible.
C30_PressToggles ==
  [][\A id \in PresentIds :
       PressVisibility(id) =>
         \A i \in Indices :
           models[i].id = id =>
             /\ Has(models'[i], "visible")
             /\ Has(models[i], "visible") =>
                  models'[i].visible = ~models[i].visible]_vars

====
